---- MODULE Spec2Model ----
(***************************************************************************)
(* Booking / payment lifecycle of the events marketplace server:           *)
(* booking.controller (createBooking, updateBooking, cancelBooking,        *)
(* confirmBooking), event.controller (joinEvent, leaveEvent),              *)
(* EventService.cancelEvent, PaymentService (createPaymentIntent,          *)
(* confirmPayment, processRefund, handleWebhook, getHostEarnings), the     *)
(* review handlers with updateHostRating, and the Mongoose schemas of      *)
(* Booking, Event and Review (validators, unique index, pre-save hook)     *)
(* that decide whether a write is stored.                                  *)
(***************************************************************************)
EXTENDS Integers, Sequences, FiniteSets, TLC

\* ------------------------------------------------------------------ bounds
MaxQuantity == 2
MaxCapacity == 2
MaxIntents == 1

\* --------------------------------------------------------------- universe
Users == {"u1", "u2"}
HostId == "h1"
AdminId == "a1"
Actors == Users \cup {HostId, AdminId}
Events == {"e1"}
Prices == {0, 10}
Quantities == 1..MaxQuantity
\* refund amounts a caller may pass; 0 stands for "no amount given"
RefundArgs == {0, 5, 20}

NoId == "none"
NoSeed == [status |-> "none", paymentStatus |-> "none", quantity |-> 0]

BookingStatuses == {"pending", "confirmed", "cancelled", "completed", "refunded", "disputed"}
PaymentStatuses == {"pending", "paid", "failed", "refunded"}

VARIABLES
    events,     \* Event collection: eventId -> document
    bookings,   \* Booking collection: sequence of documents, _id = index
    joined,     \* User.joinedEvents: userId -> eventId -> multiplicity
    intents,    \* gateway payment intents: sequence, id = index
    last,       \* outcome of the last handler call
    reqs,       \* handlers in flight (interleaved specification only)
    reviews,    \* Review collection: set of documents, one per (userId, eventId)
    rating      \* the host's User.averageRating (in tenths) and totalReviews

vars == <<events, bookings, joined, intents, last, reqs, reviews, rating>>
reviewStore == <<reviews, rating>>
store == <<events, bookings, joined>>

\* ------------------------------------------------------------ conversions
\* Math.round(price * quantity * 100): dollars to minor units
ToCents(dollars) == dollars * 100
\* paymentIntent.amount / 100, refundAmount / 100: minor units to dollars
FromCents(cents) == cents \div 100
\* quantity.toString() then parseInt(metadata.quantity)
QuantityToString(q) == CASE q = 1 -> "1" [] q = 2 -> "2" [] q = 3 -> "3" [] OTHER -> "4"
ParseInt(s) == CASE s = "1" -> 1 [] s = "2" -> 2 [] s = "3" -> 3 [] OTHER -> 4

\* ------------------------------------------------------------ Booking schema
RequiredBookingPaths == {"userId", "eventId", "hostId", "amount", "quantity"}

\* Mongoose document validation of a new Booking: required paths, min, enum
BookingValid(doc) ==
    /\ RequiredBookingPaths \subseteq DOMAIN doc
    /\ doc.amount >= 0
    /\ doc.quantity >= 1
    /\ ("status" \in DOMAIN doc => doc.status \in BookingStatuses)
    /\ ("paymentStatus" \in DOMAIN doc => doc.paymentStatus \in PaymentStatuses)

\* bookingSchema.index({ userId: 1, eventId: 1 }, { unique: true })
UniqueUserEvent(doc, coll) ==
    ~ \E i \in 1..Len(coll) : coll[i].userId = doc.userId /\ coll[i].eventId = doc.eventId

\* an insert with neither validators nor unique index: stores whatever it is given
InsertAnything(doc, coll) == TRUE

\* Booking.create(doc) / new Booking(doc).save(): validation, then the insert
\* under the unique index
InsertOK(doc, coll) == BookingValid(doc) /\ UniqueUserEvent(doc, coll)

Field(doc, name, default) == IF name \in DOMAIN doc THEN doc[name] ELSE default

\* the stored document: schema defaults applied, optional paths left unset
Stored(doc) ==
    [userId          |-> Field(doc, "userId", NoId),
     eventId         |-> Field(doc, "eventId", NoId),
     hostId          |-> Field(doc, "hostId", NoId),
     status          |-> Field(doc, "status", "pending"),
     paymentStatus   |-> Field(doc, "paymentStatus", "pending"),
     quantity        |-> Field(doc, "quantity", 0),
     amount          |-> Field(doc, "amount", 0),
     paymentIntentId |-> Field(doc, "paymentIntentId", 0),
     refundId        |-> NoId,
     refundAmount    |-> 0]

\* ------------------------------------------------------------- Event schema
\* eventSchema.pre('save')
PreSave(ev) ==
    IF ev.currentParticipants >= ev.maxParticipants
    THEN [ev EXCEPT !.status = "full"]
    ELSE IF ev.status = "full" THEN [ev EXCEPT !.status = "open"] ELSE ev

\* validators run by event.save(): currentParticipants has min 0
EventValid(ev) == ev.currentParticipants >= 0

\* MongooseArray.push / pull / includes on an id array kept as multiplicities
Push(arr, id) == [arr EXCEPT ![id] = @ + 1]
Pull(arr, id) == [arr EXCEPT ![id] = 0]
Includes(arr, id) == arr[id] > 0
Size(arr) == LET RECURSIVE Sum(_)
                 Sum(S) == IF S = {} THEN 0
                           ELSE LET x == CHOOSE y \in S : TRUE IN arr[x] + Sum(S \ {x})
             IN Sum(DOMAIN arr)

\* ------------------------------------------------------------ queries
BookingIds == 1..Len(bookings)
Counted(b) == b.status \in {"confirmed", "completed"}
\* Booking.countDocuments({ eventId, status: { $ne: 'cancelled' } })
CountNonCancelled(coll, e) ==
    Cardinality({i \in 1..Len(coll) : coll[i].eventId = e /\ coll[i].status # "cancelled"})
\* Booking.findOne({ paymentIntentId, status: { $ne: 'cancelled' } })
ExistsForIntent(coll, pi) ==
    \E i \in 1..Len(coll) : coll[i].paymentIntentId = pi /\ coll[i].status # "cancelled"
\* Booking.find({ paymentIntentId })
WithIntent(coll, pi) == {i \in 1..Len(coll) : coll[i].paymentIntentId = pi}

Result(op, ok, err) == [op |-> op, ok |-> ok, err |-> err]

\* ------------------------------------------------------------ initial state
\* The collections as the server finds them at connectDB(): schema-valid
\* documents, at most one booking per (userId, eventId) (unique index), every
\* counted booking of quantity 1 reflected in its event's counter, participant
\* list and the user's joinedEvents, every paid booking of a priced event backed
\* by a succeeded gateway intent.  isPast records whether event.date lies before
\* the clock of the requests (event.date < new Date()).
SeedPairs == <<"u1", "u2">>
SeedEvent == "e1"
SeedShapes ==
    {[status |-> "pending", paymentStatus |-> "paid", quantity |-> q] : q \in Quantities}
    \cup {[status |-> "pending", paymentStatus |-> "pending", quantity |-> 1]}
    \cup {[status |-> st, paymentStatus |-> "paid", quantity |-> 1] :
        st \in {"confirmed", "completed"}}

\* the second seeded user is fresh or already holds a confirmed booking
OtherSeedShapes == {[status |-> "confirmed", paymentStatus |-> "paid", quantity |-> 1]}
ShapesOf(n) == IF n = 1 THEN SeedShapes ELSE OtherSeedShapes

HasIntent(shape, price) == shape.paymentStatus = "paid" /\ price > 0

RECURSIVE SeedBookings(_, _, _)
SeedBookings(sh, price, n) ==
    IF n = 0 THEN <<>>
    ELSE LET prev == SeedBookings(sh, price, n - 1)
             npi  == Cardinality({i \in 1..Len(prev) : prev[i].paymentIntentId # 0})
         IN IF sh[n] = NoSeed THEN prev
            ELSE Append(prev,
                   [userId          |-> SeedPairs[n],
                    eventId         |-> SeedEvent,
                    hostId          |-> HostId,
                    status          |-> sh[n].status,
                    paymentStatus   |-> sh[n].paymentStatus,
                    quantity        |-> sh[n].quantity,
                    amount          |-> price * sh[n].quantity,
                    paymentIntentId |-> IF HasIntent(sh[n], price) THEN npi + 1 ELSE 0,
                    refundId        |-> NoId,
                    refundAmount    |-> 0])

SeedIntents(coll) ==
    LET paid == {i \in 1..Len(coll) : coll[i].paymentIntentId # 0}
        of(k) == CHOOSE i \in paid : coll[i].paymentIntentId = k
    IN [k \in 1..Cardinality(paid) |->
          [eventId  |-> coll[of(k)].eventId,
           userId   |-> coll[of(k)].userId,
           quantity |-> QuantityToString(coll[of(k)].quantity),
           amount   |-> ToCents(coll[of(k)].amount),
           status   |-> "succeeded",
           refunded |-> 0,
           created  |-> FALSE]]

InitStore ==
    \E sh \in {f \in [1..Len(SeedPairs) -> SeedShapes \cup OtherSeedShapes \cup {NoSeed}] :
                    \A n \in 1..Len(SeedPairs) : f[n] \in ShapesOf(n) \cup {NoSeed}},
       price \in Prices, max \in 1..MaxCapacity, past \in BOOLEAN :
        LET coll == SeedBookings(sh, price, Len(SeedPairs))
            counted == {i \in 1..Len(coll) : Counted(coll[i])}
            cp == Cardinality(counted)
            isIn(u) == \E i \in counted : coll[i].userId = u
        IN /\ cp <= max
           /\ \A i \in 1..Len(coll) : coll[i].quantity <= max
           /\ \A i \in 1..Len(coll) :
                (price = 0) => coll[i].paymentStatus = "paid" \/ coll[i].status = "cancelled"
           /\ bookings = coll
           /\ events = [e \in Events |->
                          [hostId              |-> HostId,
                           price               |-> price,
                           maxParticipants     |-> max,
                           isPast              |-> past,
                           currentParticipants |-> cp,
                           status              |-> IF cp >= max THEN "full" ELSE "open",
                           participants        |-> [u \in Users |-> IF isIn(u) THEN 1 ELSE 0]]]
           /\ joined = [u \in Users |-> [e \in Events |-> IF isIn(u) THEN 1 ELSE 0]]
           /\ intents = SeedIntents(coll)
           /\ last = Result("init", TRUE, "")
           /\ reviews = {}
           /\ rating = [averageRating |-> 0, totalReviews |-> 0]

Init == InitStore /\ reqs = <<>>

\* ------------------------------------------------------------ shared steps
\* event.save(): the pre-save hook, then the validators; the write is dropped
\* when validation fails
SaveEvent(e, ev) == [events EXCEPT ![e] = PreSave(ev)]
EventSaveOK(ev) == EventValid(PreSave(ev))

\* Event.findByIdAndUpdate(id, { $inc: { currentParticipants: n } }): no hook,
\* no validators; a missing event is left missing
IncParticipants(evs, e, n) ==
    IF e \in DOMAIN evs THEN [evs EXCEPT ![e].currentParticipants = @ + n] ELSE evs

IsAdmin(actor) == actor = AdminId

\* ------------------------------------------------------------ createBooking
\* the document createBooking hands to Booking.create
\* req.body.quantity is not among the fields the handler reads
CreateBookingDoc(u, e, q) ==
    [userId        |-> u,
     eventId       |-> e,
     hostId        |-> events[e].hostId,
     amount        |-> events[e].price,
     status        |-> IF events[e].price > 0 THEN "pending" ELSE "confirmed",
     paymentStatus |-> IF events[e].price > 0 THEN "pending" ELSE "paid"]

\* the availability checks of createBooking; "" = passed
BookingCheck(e) ==
    IF events[e].status # "open" THEN "EVENT_NOT_OPEN"
    ELSE IF events[e].currentParticipants >= events[e].maxParticipants THEN "EVENT_FULL"
    ELSE ""

CreateBooking(u, e, q) ==
    LET ev == events[e]
        doc == CreateBookingDoc(u, e, q)
        joinedEv == [ev EXCEPT !.participants = Push(@, u),
                               !.currentParticipants = @ + 1]
    IN
    /\ UNCHANGED <<intents, reqs, reviewStore>>
    /\ IF BookingCheck(e) # ""
       THEN /\ last' = Result("createBooking", FALSE, BookingCheck(e))
            /\ UNCHANGED store
       ELSE IF \E i \in BookingIds : bookings[i].userId = u /\ bookings[i].eventId = e
       THEN /\ last' = Result("createBooking", FALSE, "DUPLICATE_BOOKING")
            /\ UNCHANGED store
       ELSE IF ~InsertOK(doc, bookings)
       THEN /\ last' = Result("createBooking", FALSE, "SERVER_ERROR")
            /\ UNCHANGED store
       ELSE /\ bookings' = Append(bookings, Stored(doc))
            /\ IF ev.price = 0
               THEN IF EventSaveOK(joinedEv)
                    THEN /\ events' = SaveEvent(e, joinedEv)
                         /\ joined' = [joined EXCEPT ![u] = Push(@, e)]
                         /\ last' = Result("createBooking", TRUE, "")
                    ELSE /\ UNCHANGED <<events, joined>>
                         /\ last' = Result("createBooking", FALSE, "SERVER_ERROR")
               ELSE /\ UNCHANGED <<events, joined>>
                    /\ last' = Result("createBooking", TRUE, "")

\* ------------------------------------------------------------ gateway
\* stripe.paymentIntents.create rejects an amount that is not positive
GatewayAcceptsAmount(cents) == cents > 0

CreatedIntents == {k \in 1..Len(intents) : intents[k].created}

\* the customer completes the payment at the gateway
GatewayPay(pi) ==
    /\ pi \in 1..Len(intents)
    /\ intents[pi].status = "requires_payment"
    /\ intents' = [intents EXCEPT ![pi].status = "succeeded"]
    /\ UNCHANGED <<store, last, reqs, reviewStore>>

\* ------------------------------------------------------ createPaymentIntent
\* the availability checks of PaymentService.createPaymentIntent; "" = passed
IntentCheck(e, q) ==
    IF events[e].status # "open" THEN "EVENT_NOT_OPEN"
    ELSE IF events[e].isPast THEN "PAST_EVENT"
    ELSE IF CountNonCancelled(bookings, e) + q > events[e].maxParticipants
    THEN "INSUFFICIENT_CAPACITY"
    ELSE ""

\* a createPaymentIntent that books at once: it stores the booking and counts it
\* together with the intent
CreateIntentAndBooking(u, e, q) ==
    /\ Cardinality(CreatedIntents) < MaxIntents
    /\ intents' = Append(intents,
                    [eventId  |-> e,
                     userId   |-> u,
                     quantity |-> QuantityToString(q),
                     amount   |-> ToCents(events[e].price * q),
                     status   |-> "requires_payment",
                     refunded |-> 0,
                     created  |-> TRUE])
    /\ bookings' = Append(bookings,
                     Stored([userId |-> u, eventId |-> e, hostId |-> events[e].hostId,
                             quantity |-> q, amount |-> events[e].price * q,
                             paymentIntentId |-> Len(intents) + 1]))
    /\ events' = IncParticipants(events, e, q)
    /\ last' = Result("createPaymentIntent", TRUE, "")
    /\ UNCHANGED <<joined, reqs, reviewStore>>

CreatePaymentIntent(u, e, q) ==
    LET amount == ToCents(events[e].price * q)
    IN
    /\ Cardinality(CreatedIntents) < MaxIntents
    /\ UNCHANGED <<store, reqs, reviewStore>>
    /\ IF IntentCheck(e, q) # ""
       THEN /\ last' = Result("createPaymentIntent", FALSE, IntentCheck(e, q))
            /\ UNCHANGED intents
       ELSE IF ~GatewayAcceptsAmount(amount)
       THEN /\ last' = Result("createPaymentIntent", FALSE, "GATEWAY_ERROR")
            /\ UNCHANGED intents
       ELSE /\ intents' = Append(intents,
                            [eventId  |-> e,
                             userId   |-> u,
                             quantity |-> QuantityToString(q),
                             amount   |-> amount,
                             status   |-> "requires_payment",
                             refunded |-> 0,
                             created  |-> TRUE])
            /\ last' = Result("createPaymentIntent", TRUE, "")

\* ------------------------------------------- confirmPayment and the webhook
\* the document confirmPayment and handlePaymentSucceeded build from the intent
IntentBookingDoc(pi) ==
    [eventId         |-> intents[pi].eventId,
     userId          |-> intents[pi].userId,
     quantity        |-> ParseInt(intents[pi].quantity),
     paymentIntentId |-> pi,
     amount          |-> FromCents(intents[pi].amount),
     status          |-> "confirmed",
     paymentStatus   |-> "paid"]

ConfirmPayment(pi) ==
    LET doc == IntentBookingDoc(pi)
    IN
    /\ pi \in 1..Len(intents)
    /\ UNCHANGED <<joined, intents, reqs, reviewStore>>
    /\ IF intents[pi].status # "succeeded"
       THEN /\ last' = Result("confirmPayment", FALSE, "PAYMENT_NOT_SUCCESSFUL")
            /\ UNCHANGED <<events, bookings>>
       ELSE IF ExistsForIntent(bookings, pi)
       THEN /\ last' = Result("confirmPayment", FALSE, "ALREADY_EXISTS")
            /\ UNCHANGED <<events, bookings>>
       ELSE IF ~InsertOK(doc, bookings)
       THEN /\ last' = Result("confirmPayment", FALSE, "SAVE_FAILED")
            /\ UNCHANGED <<events, bookings>>
       ELSE /\ bookings' = Append(bookings, Stored(doc))
            /\ events' = IncParticipants(events, doc.eventId, doc.quantity)
            /\ last' = Result("confirmPayment", TRUE, "")

\* handleWebhook, case 'payment_intent.succeeded': an exception of booking.save()
\* is not caught and reaches the caller
HandlePaymentSucceeded(pi) ==
    LET doc == IntentBookingDoc(pi)
    IN
    /\ pi \in 1..Len(intents)
    /\ intents[pi].status = "succeeded"
    /\ UNCHANGED <<joined, intents, reqs, reviewStore>>
    /\ IF ExistsForIntent(bookings, pi)
       THEN /\ last' = Result("webhook", TRUE, "ALREADY_EXISTS")
            /\ UNCHANGED <<events, bookings>>
       ELSE IF ~InsertOK(doc, bookings)
       THEN /\ last' = Result("webhook", FALSE, "SAVE_FAILED")
            /\ UNCHANGED <<events, bookings>>
       ELSE /\ bookings' = Append(bookings, Stored(doc))
            /\ events' = IncParticipants(events, doc.eventId, doc.quantity)
            /\ last' = Result("webhook", TRUE, "")

\* ------------------------------------------------------------ processRefund
\* a refund computation that ignores the amount argument
RefundAlwaysFull(arg, pi) == intents[pi].amount

\* refundAmount = amount ? Math.round(amount * 100) : paymentIntent.amount
RefundCents(arg, pi) == IF arg # 0 THEN ToCents(arg) ELSE intents[pi].amount

\* a gateway that refunds any amount it is asked for
GatewayRefundsAnything(pi, cents) == TRUE

\* stripe.refunds.create: the gateway refunds at most what is left of the charge
GatewayRefundOK(pi, cents) ==
    /\ intents[pi].status = "succeeded"
    /\ cents > 0
    /\ intents[pi].refunded + cents <= intents[pi].amount

RefundIdOf(pi) == IF pi = 1 THEN "re_1" ELSE IF pi = 2 THEN "re_2" ELSE "re_3"

\* a processRefund that refunds a booking whatever its state, overwriting the
\* refund it may already carry
RefundAgain(bid, arg, gatewayUp) ==
    /\ bid \in BookingIds
    /\ bookings' = [bookings EXCEPT ![bid] =
                      [@ EXCEPT !.status = "cancelled", !.paymentStatus = "refunded",
                                !.refundId = "re_again", !.refundAmount = @ + 1]]
    /\ events' = IncParticipants(events, bookings[bid].eventId, 0 - bookings[bid].quantity)
    /\ last' = Result("processRefund", TRUE, "")
    /\ UNCHANGED <<joined, intents, reqs, reviewStore>>

\* a processRefund that records the refund and leaves the booking paid and active
RefundKeepingPaid(bid, arg, gatewayUp) ==
    /\ bid \in BookingIds
    /\ bookings[bid].paymentStatus = "paid"
    /\ bookings' = [bookings EXCEPT ![bid] =
                      [@ EXCEPT !.refundId = "re_kept", !.refundAmount = @ + 1]]
    /\ last' = Result("processRefund", TRUE, "")
    /\ UNCHANGED <<events, joined, intents, reqs, reviewStore>>

\* a processRefund that marks the booking and lowers the counter before it hears
\* from the gateway
RefundBeforeGateway(bid, arg, gatewayUp) ==
    /\ bid \in BookingIds
    /\ bookings' = [bookings EXCEPT ![bid] =
                      [@ EXCEPT !.status = "cancelled", !.paymentStatus = "refunded"]]
    /\ events' = IncParticipants(events, bookings[bid].eventId, 0 - bookings[bid].quantity)
    /\ last' = Result("processRefund", gatewayUp,
                      IF gatewayUp THEN "" ELSE "GATEWAY_REFUND_FAILED")
    /\ UNCHANGED <<joined, intents, reqs, reviewStore>>

\* bid ranges over the stored ids and one id that is not stored
ProcessRefund(bid, arg, gatewayUp) ==
    LET b == bookings[bid]
        pi == b.paymentIntentId
        cents == RefundCents(arg, pi)
    IN
    /\ UNCHANGED <<joined, reqs, reviewStore>>
    /\ IF bid \notin BookingIds
       THEN /\ last' = Result("processRefund", FALSE, "BOOKING_NOT_FOUND")
            /\ UNCHANGED <<events, bookings, intents>>
       ELSE IF b.status = "cancelled"
       THEN /\ last' = Result("processRefund", FALSE, "ALREADY_CANCELLED")
            /\ UNCHANGED <<events, bookings, intents>>
       ELSE IF b.paymentStatus # "paid"
       THEN /\ last' = Result("processRefund", FALSE, "NOTHING_TO_REFUND")
            /\ UNCHANGED <<events, bookings, intents>>
       ELSE IF pi \notin 1..Len(intents) \/ ~gatewayUp
       THEN /\ last' = Result("processRefund", FALSE, "GATEWAY_REFUND_FAILED")
            /\ UNCHANGED <<events, bookings, intents>>
       ELSE IF ~GatewayRefundOK(pi, cents)
       THEN /\ last' = Result("processRefund", FALSE, "GATEWAY_REFUND_FAILED")
            /\ UNCHANGED <<events, bookings, intents>>
       ELSE /\ intents' = [intents EXCEPT ![pi].refunded = @ + cents]
            /\ bookings' = [bookings EXCEPT ![bid] =
                              [@ EXCEPT !.status = "cancelled",
                                        !.paymentStatus = "refunded",
                                        !.refundId = RefundIdOf(pi),
                                        !.refundAmount = FromCents(cents)]]
            /\ events' = IncParticipants(events, b.eventId, 0 - b.quantity)
            /\ last' = Result("processRefund", TRUE, "")

\* ------------------------------------------------------------ cancelBooking
MayTouch(actor, b) == b.userId = actor \/ b.hostId = actor \/ IsAdmin(actor)

\* a cancelBooking that releases the seat and keeps the user's joinedEvents
CancelKeepingJoined(actor, bid) ==
    /\ bid \in BookingIds
    /\ MayTouch(actor, bookings[bid])
    /\ bookings[bid].status = "confirmed"
    /\ events[bookings[bid].eventId].currentParticipants >= 1
    /\ events' = SaveEvent(bookings[bid].eventId,
                           [events[bookings[bid].eventId] EXCEPT
                              !.participants = Pull(@, bookings[bid].userId),
                              !.currentParticipants = @ - 1,
                              !.status = IF @ = "full" THEN "open" ELSE @])
    /\ bookings' = [bookings EXCEPT ![bid].status = "cancelled"]
    /\ last' = Result("cancelBooking", TRUE, "")
    /\ UNCHANGED <<joined, intents, reqs, reviewStore>>

CancelBooking(actor, bid) ==
    LET b == bookings[bid]
        ev == events[b.eventId]
        left == [ev EXCEPT !.participants = Pull(@, b.userId),
                           !.currentParticipants = @ - 1,
                           !.status = IF @ = "full" THEN "open" ELSE @]
    IN
    /\ UNCHANGED <<intents, reqs, reviewStore>>
    /\ IF bid \notin BookingIds
       THEN /\ last' = Result("cancelBooking", FALSE, "BOOKING_NOT_FOUND")
            /\ UNCHANGED store
       ELSE IF ~MayTouch(actor, b)
       THEN /\ last' = Result("cancelBooking", FALSE, "ACCESS_DENIED")
            /\ UNCHANGED store
       ELSE IF b.status = "confirmed" /\ ~EventSaveOK(left)
       THEN /\ last' = Result("cancelBooking", FALSE, "SERVER_ERROR")
            /\ UNCHANGED store
       ELSE /\ IF b.status = "confirmed"
               THEN /\ events' = SaveEvent(b.eventId, left)
                    /\ joined' = [joined EXCEPT ![b.userId] = Pull(@, b.eventId)]
               ELSE UNCHANGED <<events, joined>>
            /\ bookings' = [bookings EXCEPT ![bid].status = "cancelled"]
            /\ last' = Result("cancelBooking", TRUE, "")

\* ------------------------------------------------------------ confirmBooking
\* a confirmBooking without its guards: any caller confirms any stored booking
ConfirmWithoutChecks(actor, bid) ==
    /\ bid \in BookingIds
    /\ bookings' = [bookings EXCEPT ![bid].status = "confirmed"]
    /\ last' = Result("confirmBooking", TRUE, "")
    /\ UNCHANGED <<events, joined, intents, reqs, reviewStore>>

ConfirmBooking(actor, bid) ==
    LET b == bookings[bid]
        ev == events[b.eventId]
        added == [ev EXCEPT !.participants = Push(@, b.userId),
                            !.currentParticipants = @ + 1]
    IN
    /\ UNCHANGED <<intents, reqs, reviewStore>>
    /\ IF bid \notin BookingIds
       THEN /\ last' = Result("confirmBooking", FALSE, "BOOKING_NOT_FOUND")
            /\ UNCHANGED store
       ELSE IF ~(b.hostId = actor \/ IsAdmin(actor))
       THEN /\ last' = Result("confirmBooking", FALSE, "ACCESS_DENIED")
            /\ UNCHANGED store
       ELSE IF b.status # "pending"
       THEN /\ last' = Result("confirmBooking", FALSE, "INVALID_STATE")
            /\ UNCHANGED store
       ELSE IF b.paymentStatus # "paid"
       THEN /\ last' = Result("confirmBooking", FALSE, "PAYMENT_REQUIRED")
            /\ UNCHANGED store
       ELSE /\ bookings' = [bookings EXCEPT ![bid].status = "confirmed"]
            /\ IF Includes(ev.participants, b.userId)
               THEN /\ UNCHANGED events
                    /\ joined' = IF Includes(joined[b.userId], b.eventId) THEN joined
                                 ELSE [joined EXCEPT ![b.userId] = Push(@, b.eventId)]
                    /\ last' = Result("confirmBooking", TRUE, "")
               ELSE IF ~EventSaveOK(added)
               THEN /\ UNCHANGED <<events, joined>>
                    /\ last' = Result("confirmBooking", FALSE, "SERVER_ERROR")
               ELSE /\ events' = SaveEvent(b.eventId, added)
                    /\ joined' = IF Includes(joined[b.userId], b.eventId) THEN joined
                                 ELSE [joined EXCEPT ![b.userId] = Push(@, b.eventId)]
                    /\ last' = Result("confirmBooking", TRUE, "")

\* ------------------------------------------------------------ specification
\* one past the stored ids: a booking id that does not exist
BookingIdArgs == 1..(Len(bookings) + 1)

Next ==
    \/ \E u \in Users, e \in Events, q \in Quantities : CreateBooking(u, e, q)
    \/ \E u \in Users, e \in Events, q \in Quantities : CreatePaymentIntent(u, e, q)
    \/ \E pi \in 1..Len(intents) : GatewayPay(pi)
    \/ \E pi \in 1..Len(intents) : ConfirmPayment(pi)
    \/ \E pi \in 1..Len(intents) : HandlePaymentSucceeded(pi)
    \/ \E bid \in BookingIdArgs, arg \in RefundArgs, up \in BOOLEAN : ProcessRefund(bid, arg, up)
    \/ \E a \in Actors, bid \in BookingIdArgs : CancelBooking(a, bid)
    \/ \E a \in Actors, bid \in BookingIdArgs : ConfirmBooking(a, bid)

Spec == Init /\ [][Next]_vars

\* ------------------------------------------ the remaining writers of the store
\* a joinEvent without the check for an existing participant
JoinWithoutCheck(u, e) ==
    /\ events[e].status = "open"
    /\ events[e].currentParticipants < events[e].maxParticipants
    /\ events' = SaveEvent(e, [events[e] EXCEPT !.participants = Push(@, u),
                                                !.currentParticipants = @ + 1])
    /\ joined' = [joined EXCEPT ![u] = Push(@, e)]
    /\ last' = Result("joinEvent", TRUE, "")
    /\ UNCHANGED <<bookings, intents, reqs, reviewStore>>

\* joinEvent, one request at a time
JoinEvent(u, e) ==
    LET ev == events[e]
        joinedEv == [ev EXCEPT !.participants = Push(@, u),
                               !.currentParticipants = @ + 1]
    IN
    /\ UNCHANGED <<bookings, intents, reqs, reviewStore>>
    /\ IF ev.status # "open"
       THEN /\ last' = Result("joinEvent", FALSE, "EVENT_NOT_OPEN")
            /\ UNCHANGED <<events, joined>>
       ELSE IF ev.currentParticipants >= ev.maxParticipants
       THEN /\ last' = Result("joinEvent", FALSE, "EVENT_FULL")
            /\ UNCHANGED <<events, joined>>
       ELSE IF Includes(ev.participants, u)
       THEN /\ last' = Result("joinEvent", FALSE, "ALREADY_PARTICIPANT")
            /\ UNCHANGED <<events, joined>>
       ELSE IF ~EventSaveOK(joinedEv)
       THEN /\ last' = Result("joinEvent", FALSE, "SERVER_ERROR")
            /\ UNCHANGED <<events, joined>>
       ELSE /\ events' = SaveEvent(e, joinedEv)
            /\ joined' = [joined EXCEPT ![u] = Push(@, e)]
            /\ last' = Result("joinEvent", TRUE, "")

\* leaveEvent
LeaveEvent(u, e) ==
    LET ev == events[e]
        leftEv == [ev EXCEPT !.participants = Pull(@, u),
                             !.currentParticipants = @ - 1,
                             !.status = IF @ = "full" THEN "open" ELSE @]
    IN
    /\ UNCHANGED <<bookings, intents, reqs, reviewStore>>
    /\ IF ~Includes(ev.participants, u)
       THEN /\ last' = Result("leaveEvent", FALSE, "NOT_PARTICIPANT")
            /\ UNCHANGED <<events, joined>>
       ELSE IF ~EventSaveOK(leftEv)
       THEN /\ last' = Result("leaveEvent", FALSE, "SERVER_ERROR")
            /\ UNCHANGED <<events, joined>>
       ELSE /\ events' = SaveEvent(e, leftEv)
            /\ joined' = [joined EXCEPT ![u] = Pull(@, e)]
            /\ last' = Result("leaveEvent", TRUE, "")

\* req.body.status of updateBooking: any string, or absent; the route runs no
\* validation chain, the update runs the schema's enum validator
NoStatus == "absent"
StatusArgs == BookingStatuses \cup {NoStatus, "archived"}

\* updateBooking: Booking.findByIdAndUpdate(id, { status, ... }, { runValidators })
UpdateBooking(actor, bid, status) ==
    LET b == bookings[bid]
    IN
    /\ UNCHANGED <<events, joined, intents, reqs, reviewStore>>
    /\ IF bid \notin BookingIds
       THEN /\ last' = Result("updateBooking", FALSE, "BOOKING_NOT_FOUND")
            /\ UNCHANGED bookings
       ELSE IF ~MayTouch(actor, b)
       THEN /\ last' = Result("updateBooking", FALSE, "ACCESS_DENIED")
            /\ UNCHANGED bookings
       ELSE IF status # NoStatus /\ b.hostId # actor /\ ~IsAdmin(actor)
       THEN /\ last' = Result("updateBooking", FALSE, "ACCESS_DENIED")
            /\ UNCHANGED bookings
       ELSE IF status # NoStatus /\ status \notin BookingStatuses
       THEN /\ last' = Result("updateBooking", FALSE, "SERVER_ERROR")
            /\ UNCHANGED bookings
       ELSE /\ bookings' = IF status = NoStatus THEN bookings
                           ELSE [bookings EXCEPT ![bid].status = status]
            /\ last' = Result("updateBooking", TRUE, "")

\* handleWebhook, case 'charge.dispute.created', for a captured payment
HandleDisputeCreated(pi) ==
    /\ pi \in 1..Len(intents)
    /\ intents[pi].status = "succeeded"
    /\ UNCHANGED <<events, joined, intents, reqs, reviewStore>>
    /\ last' = Result("disputeWebhook", TRUE, "")
    /\ IF WithIntent(bookings, pi) # {}
       THEN LET i == CHOOSE k \in WithIntent(bookings, pi) :
                        \A m \in WithIntent(bookings, pi) : k <= m
            IN bookings' = [bookings EXCEPT ![i].status = "disputed"]
       ELSE UNCHANGED bookings

\* a cancelEvent that deletes the event's bookings
CancelEventDeleting(actor, e) ==
    /\ events[e].hostId = actor
    /\ events' = [events EXCEPT ![e].status = "cancelled"]
    /\ bookings' = SelectSeq(bookings, LAMBDA b : b.eventId # e)
    /\ last' = Result("cancelEvent", TRUE, "")
    /\ UNCHANGED <<joined, intents, reqs, reviewStore>>

\* EventService.cancelEvent(eventId, hostId)
CancelEvent(actor, e) ==
    LET ev == events[e]
        cancelled == [ev EXCEPT !.status = "cancelled"]
    IN
    /\ UNCHANGED <<joined, intents, reqs, reviewStore>>
    /\ IF ev.hostId # actor
       THEN /\ last' = Result("cancelEvent", FALSE, "ACCESS_DENIED")
            /\ UNCHANGED <<events, bookings>>
       ELSE IF ev.status = "cancelled"
       THEN /\ last' = Result("cancelEvent", FALSE, "ALREADY_CANCELLED")
            /\ UNCHANGED <<events, bookings>>
       ELSE IF ~EventSaveOK(cancelled)
       THEN /\ last' = Result("cancelEvent", FALSE, "SERVER_ERROR")
            /\ UNCHANGED <<events, bookings>>
       ELSE /\ events' = SaveEvent(e, cancelled)
            /\ bookings' = [i \in 1..Len(bookings) |->
                              IF bookings[i].eventId = e /\ bookings[i].status # "cancelled"
                              THEN [bookings[i] EXCEPT !.status = "cancelled"]
                              ELSE bookings[i]]
            /\ last' = Result("cancelEvent", TRUE, "")

\* the booking and payment handlers together with joinEvent and leaveEvent
NextJoin ==
    \/ Next
    \/ \E u \in Users, e \in Events : JoinEvent(u, e)
    \/ \E u \in Users, e \in Events : LeaveEvent(u, e)

SpecJoin == Init /\ [][NextJoin]_vars

\* every handler that writes booking.status of a stored booking
NextStatus ==
    \/ \E a \in Actors, bid \in BookingIdArgs, st \in StatusArgs : UpdateBooking(a, bid, st)
    \/ \E a \in Actors, bid \in BookingIdArgs : CancelBooking(a, bid)
    \/ \E a \in Actors, bid \in BookingIdArgs : ConfirmBooking(a, bid)
    \/ \E bid \in BookingIdArgs, arg \in RefundArgs, up \in BOOLEAN : ProcessRefund(bid, arg, up)
    \/ \E pi \in 1..Len(intents) : HandleDisputeCreated(pi)
    \/ \E a \in Actors, e \in Events : CancelEvent(a, e)

\* the status handlers are followed on stores holding at most one booking
InitStatus == Init /\ Len(bookings) <= 1

SpecStatus == InitStatus /\ [][NextStatus]_vars

\* ------------------------------------------------------------ getHostEarnings
\* bookings.reduce((sum, booking) => sum + f(booking), 0) over a set of ids
RECURSIVE SumOver(_, _, _)
SumOver(coll, ids, field) ==
    IF ids = {} THEN 0
    ELSE LET i == CHOOSE k \in ids : TRUE
         IN coll[i][field] + SumOver(coll, ids \ {i}, field)

\* a quotient of two numbers, kept exact
Quotient(num, den) == [num |-> num, den |-> den]

\* an aggregation that forgets the query's paymentStatus and status conditions
HostEarningsOfAllBookings(hostId) ==
    LET sel == {i \in BookingIds : events[bookings[i].eventId].hostId = hostId}
        totalRevenue == SumOver(bookings, sel, "amount")
        totalRefunds == SumOver(bookings, sel, "refundAmount")
    IN [totalRevenue        |-> totalRevenue,
        totalRefunds        |-> totalRefunds,
        netEarnings         |-> totalRevenue - totalRefunds,
        totalBookings       |-> Cardinality(sel),
        averageBookingValue |-> IF Cardinality(sel) > 0
                                THEN Quotient(totalRevenue, Cardinality(sel))
                                ELSE Quotient(0, 1)]

\* PaymentService.getHostEarnings(hostId), no filters
HostEarnings(hostId) ==
    LET eventIds == {e \in Events : events[e].hostId = hostId}
        sel == {i \in BookingIds : /\ bookings[i].eventId \in eventIds
                                   /\ bookings[i].paymentStatus = "paid"
                                   /\ bookings[i].status # "cancelled"}
        totalRevenue == SumOver(bookings, sel, "amount")
        totalRefunds == SumOver(bookings, sel, "refundAmount")
        totalBookings == Cardinality(sel)
    IN [totalRevenue        |-> totalRevenue,
        totalRefunds        |-> totalRefunds,
        netEarnings         |-> totalRevenue - totalRefunds,
        totalBookings       |-> totalBookings,
        averageBookingValue |-> IF totalBookings > 0
                                THEN Quotient(totalRevenue, totalBookings)
                                ELSE Quotient(0, 1)]

GetHostEarnings(hostId) ==
    /\ last' = [op |-> "getHostEarnings", ok |-> TRUE, err |-> "",
                value |-> HostEarnings(hostId)]
    /\ UNCHANGED <<store, intents, reqs, reviewStore>>

\* the booking and payment handlers together with the earnings report
NextEarnings ==
    \/ Next
    \/ \E h \in {HostId, AdminId} : GetHostEarnings(h)

SpecEarnings == Init /\ [][NextEarnings]_vars

\* ------------------------------------------------------------------ reviews
\* req.body.rating of createReview and updateReview; 0 stands for "no rating
\* in the body"; the review routes run no validation chain
RatingArgs == {0, 1, 2, 5, 6}

\* reviewSchema.rating: required, min 1, max 5
RatingValid(r) == r >= 1 /\ r <= 5

\* Math.round(averageRating * 10) / 10 of totalRating / n, kept in tenths
RoundTenths(totalRating, n) == (20 * totalRating + n) \div (2 * n)

RECURSIVE TotalRating(_)
TotalRating(revs) ==
    IF revs = {} THEN 0
    ELSE LET r == CHOOSE x \in revs : TRUE IN r.rating + TotalRating(revs \ {r})

\* updateHostRating(hostId) on the Review collection revs
UpdateHostRating(revs) ==
    LET mine == {r \in revs : r.hostId = HostId}
    IN IF mine = {}
       THEN [averageRating |-> 0, totalReviews |-> 0]
       ELSE [averageRating |-> RoundTenths(TotalRating(mine), Cardinality(mine)),
             totalReviews  |-> Cardinality(mine)]

ReviewOf(u, e) == {r \in reviews : r.userId = u /\ r.eventId = e}

CreateReview(u, e, r) ==
    LET doc == [userId |-> u, eventId |-> e, hostId |-> events[e].hostId, rating |-> r]
    IN
    /\ UNCHANGED <<store, intents, reqs>>
    /\ IF ~Includes(events[e].participants, u)
       THEN /\ last' = Result("createReview", FALSE, "NOT_PARTICIPANT")
            /\ UNCHANGED reviewStore
       ELSE IF ReviewOf(u, e) # {}
       THEN /\ last' = Result("createReview", FALSE, "ALREADY_REVIEWED")
            /\ UNCHANGED reviewStore
       ELSE IF ~RatingValid(r)
       THEN /\ last' = Result("createReview", FALSE, "SERVER_ERROR")
            /\ UNCHANGED reviewStore
       ELSE /\ reviews' = reviews \cup {doc}
            /\ rating' = UpdateHostRating(reviews \cup {doc})
            /\ last' = Result("createReview", TRUE, "")

\* updateReview of the review of (u, e) by actor
UpdateReview(actor, u, e, r) ==
    /\ UNCHANGED <<store, intents, reqs>>
    /\ IF ReviewOf(u, e) = {}
       THEN /\ last' = Result("updateReview", FALSE, "REVIEW_NOT_FOUND")
            /\ UNCHANGED reviewStore
       ELSE IF u # actor /\ ~IsAdmin(actor)
       THEN /\ last' = Result("updateReview", FALSE, "ACCESS_DENIED")
            /\ UNCHANGED reviewStore
       ELSE IF r # 0 /\ ~RatingValid(r)
       THEN /\ last' = Result("updateReview", FALSE, "SERVER_ERROR")
            /\ UNCHANGED reviewStore
       ELSE LET updated == IF r = 0 THEN reviews
                           ELSE {IF x \in ReviewOf(u, e) THEN [x EXCEPT !.rating = r] ELSE x :
                                   x \in reviews}
            IN /\ reviews' = updated
               /\ rating' = UpdateHostRating(updated)
               /\ last' = Result("updateReview", TRUE, "")

\* deleteReview of the review controller
DeleteReview(actor, u, e) ==
    /\ UNCHANGED <<store, intents, reqs>>
    /\ IF ReviewOf(u, e) = {}
       THEN /\ last' = Result("deleteReview", FALSE, "REVIEW_NOT_FOUND")
            /\ UNCHANGED reviewStore
       ELSE IF u # actor /\ (\A x \in ReviewOf(u, e) : x.hostId # actor) /\ ~IsAdmin(actor)
       THEN /\ last' = Result("deleteReview", FALSE, "ACCESS_DENIED")
            /\ UNCHANGED reviewStore
       ELSE /\ reviews' = reviews \ ReviewOf(u, e)
            /\ rating' = UpdateHostRating(reviews \ ReviewOf(u, e))
            /\ last' = Result("deleteReview", TRUE, "")

\* deleteReview of the admin controller
AdminDeleteReview(u, e) ==
    /\ UNCHANGED <<store, intents, reqs, rating>>
    /\ IF ReviewOf(u, e) = {}
       THEN /\ last' = Result("adminDeleteReview", FALSE, "REVIEW_NOT_FOUND")
            /\ UNCHANGED reviews
       ELSE /\ reviews' = reviews \ ReviewOf(u, e)
            /\ last' = Result("adminDeleteReview", TRUE, "")

NextReview ==
    \/ \E u \in Users, e \in Events, r \in RatingArgs : CreateReview(u, e, r)
    \/ \E a \in Actors, u \in Users, e \in Events, r \in RatingArgs : UpdateReview(a, u, e, r)
    \/ \E a \in Actors, u \in Users, e \in Events : DeleteReview(a, u, e)
    \/ \E u \in Users, e \in Events : AdminDeleteReview(u, e)

SpecReview == Init /\ [][NextReview]_vars

\* the status handlers together with the host's earnings report
NextRefunds ==
    \/ NextStatus
    \/ \E h \in {HostId, AdminId} : GetHostEarnings(h)

SpecRefunds == InitStatus /\ [][NextRefunds]_vars

\* ------------------------------------------------ handlers taken step by step
\* Every await of confirmPayment, handlePaymentSucceeded and joinEvent is a
\* step of its own; steps of different requests interleave freely.
PaySlots == {"client", "webhook"}
JoinSlots == Users
IdlePay == [pc |-> "idle", pi |-> 0, paid |-> FALSE, cp0 |-> 0, ok |-> FALSE]
IdleJoin == [pc |-> "idle", ok |-> FALSE]

InitRace ==
    /\ InitStore
    /\ reqs = [s \in PaySlots \cup JoinSlots |-> IF s \in PaySlots THEN IdlePay ELSE IdleJoin]

Finish(s, ok) == reqs' = [reqs EXCEPT ![s].pc = "done", ![s].ok = ok]

\* stripe.paymentIntents.retrieve and the status check (client), or the delivery
\* of 'payment_intent.succeeded' (webhook); then the metadata is read
PayStart(s, pi) ==
    /\ reqs[s].pc = "idle"
    /\ pi \in 1..Len(intents)
    /\ s = "webhook" => intents[pi].status = "succeeded"
    /\ reqs' = [reqs EXCEPT ![s] =
                  IF intents[pi].status # "succeeded"
                  THEN [pc |-> "done", pi |-> pi, paid |-> FALSE, cp0 |-> 0, ok |-> FALSE]
                  ELSE [pc |-> "find", pi |-> pi, paid |-> TRUE,
                        cp0 |-> events[intents[pi].eventId].currentParticipants,
                        ok |-> FALSE]]
    /\ UNCHANGED <<store, intents, last, reviewStore>>

\* await Booking.findOne({ paymentIntentId, status: { $ne: 'cancelled' } })
PayFind(s) ==
    /\ reqs[s].pc = "find"
    /\ IF ExistsForIntent(bookings, reqs[s].pi)
       THEN Finish(s, s = "webhook")
       ELSE reqs' = [reqs EXCEPT ![s].pc = "save"]
    /\ UNCHANGED <<store, intents, last, reviewStore>>

\* await booking.save(), and in a later step await
\* Event.findByIdAndUpdate(eventId, { $inc: { currentParticipants } })
PayWrite(s) ==
    LET doc == IntentBookingDoc(reqs[s].pi)
    IN
    /\ reqs[s].pc \in {"save", "inc"}
    /\ IF reqs[s].pc = "save"
       THEN /\ UNCHANGED events
            /\ IF InsertOK(doc, bookings)
               THEN /\ bookings' = Append(bookings, Stored(doc))
                    /\ reqs' = [reqs EXCEPT ![s].pc = "inc"]
               ELSE /\ UNCHANGED bookings
                    /\ Finish(s, FALSE)
       ELSE /\ events' = IncParticipants(events, doc.eventId, doc.quantity)
            /\ UNCHANGED bookings
            /\ Finish(s, TRUE)
    /\ UNCHANGED <<joined, intents, last, reviewStore>>

\* await Event.findById(id), then the checks and the changes to the local copy
JoinFind(u, e) ==
    LET ev == events[e]
    IN
    /\ reqs[u].pc = "idle"
    /\ IF \/ ev.status # "open"
          \/ ev.currentParticipants >= ev.maxParticipants
          \/ Includes(ev.participants, u)
       THEN Finish(u, FALSE)
       ELSE reqs' = [reqs EXCEPT ![u] =
                       [pc |-> "save", ok |-> FALSE, eventId |-> e, read |-> ev,
                        doc |-> [ev EXCEPT !.participants = Push(@, u),
                                           !.currentParticipants = @ + 1]]]
    /\ UNCHANGED <<store, intents, last, reviewStore>>

\* await event.save() of the local copy: the hook and the validators run on the
\* copy, the update sent is $set of the paths that changed (currentParticipants,
\* status) and $push of the new participant onto the stored array
JoinSave(u) ==
    LET r == reqs[u]
        doc == PreSave(r.doc)
        cur == events[r.eventId]
    IN
    /\ r.pc = "save"
    /\ IF EventValid(doc)
       THEN /\ events' = [events EXCEPT ![r.eventId] =
                            [cur EXCEPT !.currentParticipants = doc.currentParticipants,
                                        !.status = IF doc.status # r.read.status
                                                   THEN doc.status ELSE @,
                                        !.participants = Push(@, u)]]
            /\ reqs' = [reqs EXCEPT ![u].pc = "user"]
       ELSE /\ UNCHANGED events
            /\ Finish(u, FALSE)
    /\ UNCHANGED <<bookings, joined, intents, last, reviewStore>>

\* req.user.joinedEvents.push(event._id); await req.user.save()
JoinUser(u) ==
    /\ reqs[u].pc = "user"
    /\ joined' = [joined EXCEPT ![u] = Push(@, reqs[u].eventId)]
    /\ Finish(u, TRUE)
    /\ UNCHANGED <<events, bookings, intents, last, reviewStore>>

NextRace ==
    \/ \E u \in Users, e \in Events, q \in Quantities : CreatePaymentIntent(u, e, q)
    \/ \E pi \in 1..Len(intents) : GatewayPay(pi)
    \/ \E s \in PaySlots, pi \in 1..Len(intents) : PayStart(s, pi)
    \/ \E s \in PaySlots : PayFind(s)
    \/ \E s \in PaySlots : PayWrite(s)
    \/ \E u \in JoinSlots, e \in Events : JoinFind(u, e)
    \/ \E u \in JoinSlots : JoinSave(u)
    \/ \E u \in JoinSlots : JoinUser(u)

SpecRace == InitRace /\ [][NextRace]_vars

\* ------------------------------------------------------------------ claims
CountedBookings(coll, e) == {i \in 1..Len(coll) : coll[i].eventId = e /\ Counted(coll[i])}
ActiveFor(coll, u, e) ==
    {i \in 1..Len(coll) : coll[i].userId = u /\ coll[i].eventId = e /\ coll[i].status # "cancelled"}
NewBooking == bookings'[Len(bookings')]

\* C1: after any sequence of createBooking, confirmPayment / webhook,
\* confirmBooking, cancelBooking and processRefund, every event's
\* currentParticipants equals the number of its confirmed or completed bookings.
C1_CounterMatchesBookings ==
    \A e \in Events :
        events[e].currentParticipants = Cardinality(CountedBookings(bookings, e))

\* C4: a confirmation (client call or webhook) of a paid intent that has no
\* booking yet leaves exactly one booking for it and raises currentParticipants
\* by the quantity; a confirmation of an intent that already has a non-cancelled
\* booking changes no stored state.
C4_ConfirmTwiceIdempotent ==
    [][\A pi \in 1..Len(intents) :
         ((ConfirmPayment(pi) \/ HandlePaymentSucceeded(pi)) /\ intents[pi].status = "succeeded")
         => /\ ExistsForIntent(bookings, pi) => UNCHANGED store
            /\ WithIntent(bookings, pi) = {}
                 => /\ Cardinality(WithIntent(bookings', pi)) = 1
                    /\ events'[intents[pi].eventId].currentParticipants =
                         events[intents[pi].eventId].currentParticipants
                           + ParseInt(intents[pi].quantity)]_vars

\* C5: a booking creation (createBooking or createPaymentIntent) asking for
\* quantity q is rejected whenever currentParticipants + q > maxParticipants,
\* and the rejection stores nothing.
C5_OverCapacityRejected ==
    [][\A u \in Users, e \in Events, q \in Quantities :
         ((CreateBooking(u, e, q) \/ CreatePaymentIntent(u, e, q))
          /\ events[e].currentParticipants + q > events[e].maxParticipants)
         => /\ ~last'.ok
            /\ UNCHANGED <<store, intents>>]_vars

\* C6: in every reachable state each (userId, eventId) pair has at most one
\* booking whose status is not cancelled.
C6_OneActiveBookingPerUserEvent ==
    \A u \in Users, e \in Events : Cardinality(ActiveFor(bookings, u, e)) <= 1

\* C6 witness: a confirmation tried to store a second booking for a user who
\* already holds a non-cancelled booking of the event, and the store refused it.
C6_Witness ==
    /\ last.op = "confirmPayment"
    /\ last.err = "SAVE_FAILED"
    /\ \E pi \in CreatedIntents :
         /\ intents[pi].status = "succeeded"
         /\ WithIntent(bookings, pi) = {}
         /\ ActiveFor(bookings, intents[pi].userId, intents[pi].eventId) # {}

\* C7: confirmPayment on a succeeded intent with complete metadata and no
\* non-cancelled booking for it succeeds, stores a confirmed/paid booking built
\* from the metadata and raises currentParticipants by the metadata quantity.
C7_ConfirmPaymentCreatesBooking ==
    [][\A pi \in 1..Len(intents) :
         (/\ ConfirmPayment(pi)
          /\ intents[pi].status = "succeeded"
          /\ ~ExistsForIntent(bookings, pi))
         => /\ last'.ok
            /\ Len(bookings') = Len(bookings) + 1
            /\ bookings'[Len(bookings')].status = "confirmed"
            /\ bookings'[Len(bookings')].paymentStatus = "paid"
            /\ bookings'[Len(bookings')].paymentIntentId = pi
            /\ bookings'[Len(bookings')].userId = intents[pi].userId
            /\ bookings'[Len(bookings')].eventId = intents[pi].eventId
            /\ bookings'[Len(bookings')].quantity = ParseInt(intents[pi].quantity)
            /\ events'[intents[pi].eventId].currentParticipants =
                 events[intents[pi].eventId].currentParticipants + ParseInt(intents[pi].quantity)]_vars

\* C8: createBooking(eventId, userId, quantity) under its preconditions (the event
\* is open, has room for the quantity, the user holds no non-cancelled booking) stores
\* a new booking with amount = price * quantity and the requested quantity,
\* confirmed/paid when the price is 0 and pending/pending otherwise; for a
\* priced event currentParticipants and participants stay as they were.
C8_CreateBookingStoresBooking ==
    [][\A u \in Users, e \in Events, q \in Quantities :
         (/\ CreateBooking(u, e, q)
          /\ events[e].status = "open"
          /\ events[e].currentParticipants + q <= events[e].maxParticipants
          /\ ActiveFor(bookings, u, e) = {})
         => /\ last'.ok
            /\ Len(bookings') = Len(bookings) + 1
            /\ NewBooking.userId = u /\ NewBooking.eventId = e
            /\ NewBooking.amount = events[e].price * q
            /\ NewBooking.quantity = q
            /\ NewBooking.status = (IF events[e].price = 0 THEN "confirmed" ELSE "pending")
            /\ NewBooking.paymentStatus = (IF events[e].price = 0 THEN "paid" ELSE "pending")
            /\ events[e].price > 0 => UNCHANGED events]_vars

\* C9: createBooking on a free event, under its preconditions, makes no gateway
\* call, yields a confirmed/paid booking, raises currentParticipants by the
\* booking quantity, and adds the user to participants and the event to the
\* user's joinedEvents.
C9_FreeEventConfirmedAtOnce ==
    [][\A u \in Users, e \in Events, q \in Quantities :
         (/\ CreateBooking(u, e, q)
          /\ events[e].price = 0
          /\ events[e].status = "open"
          /\ events[e].currentParticipants + q <= events[e].maxParticipants
          /\ ActiveFor(bookings, u, e) = {})
         => /\ UNCHANGED intents
            /\ Len(bookings') = Len(bookings) + 1
            /\ NewBooking.status = "confirmed"
            /\ NewBooking.paymentStatus = "paid"
            /\ events'[e].currentParticipants =
                 events[e].currentParticipants + NewBooking.quantity
            /\ Includes(events'[e].participants, u)
            /\ Includes(joined'[u], e)]_vars

\* C10: whenever a step makes a booking counted (confirmed or completed) the
\* event's currentParticipants rises by exactly that booking's quantity, and
\* whenever a step makes it stop being counted it falls by exactly that quantity.
C10_CounterMovesByQuantity ==
    [][\A i \in 1..Len(bookings') :
         LET now == bookings'[i]
             was == IF i <= Len(bookings) THEN Counted(bookings[i]) ELSE FALSE
             e == now.eventId
         IN /\ (~was /\ Counted(now))
                 => events'[e].currentParticipants
                      = events[e].currentParticipants + now.quantity
            /\ (was /\ ~Counted(now))
                 => events'[e].currentParticipants
                      = events[e].currentParticipants - now.quantity]_vars

\* C11: for every event whose status is open or full, after any booking,
\* payment-confirmation, cancellation, refund, join or leave operation,
\* status = full exactly when currentParticipants >= maxParticipants.
C11_FullIffAtCapacity ==
    \A e \in Events :
        events[e].status \in {"open", "full"}
          => (events[e].status = "full"
                <=> events[e].currentParticipants >= events[e].maxParticipants)

\* C12: createPaymentIntent passes its availability checks (event open,
\* future-dated, capacity available) for an event and a quantity if and only if
\* createBooking passes its own on the same state.
C12_SameAvailabilityChecks ==
    [][\A u \in Users, e \in Events, q \in Quantities :
         CreatePaymentIntent(u, e, q)
         => ((last'.err \notin {"EVENT_NOT_OPEN", "PAST_EVENT", "INSUFFICIENT_CAPACITY"})
               <=> BookingCheck(e) = "")]_vars

\* C13: createPaymentIntent, whether it succeeds or fails, creates no booking and
\* changes neither currentParticipants nor participants of any event; the intent
\* it creates has no booking when the call returns.
C13_IntentCreatesNoBooking ==
    [][\A u \in Users, e \in Events, q \in Quantities :
         CreatePaymentIntent(u, e, q)
         => /\ bookings' = bookings
            /\ \A x \in Events :
                 /\ events'[x].currentParticipants = events[x].currentParticipants
                 /\ events'[x].participants = events[x].participants
            /\ \A pi \in 1..Len(intents') :
                 pi > Len(intents) => WithIntent(bookings', pi) = {}]_vars

\* C13 witness: createPaymentIntent has just succeeded and its intent, still
\* unpaid, has no booking.
C13_Witness ==
    /\ last.op = "createPaymentIntent"
    /\ last.ok
    /\ \E pi \in CreatedIntents :
         /\ intents[pi].status = "requires_payment"
         /\ WithIntent(bookings, pi) = {}

\* C14: a stored booking's status only ever changes along pending -> confirmed,
\* confirmed -> cancelled, confirmed -> completed, confirmed -> disputed, or, by
\* processRefund alone, from confirmed or completed to the refunded outcome
\* (status cancelled, paymentStatus refunded); updateBooking, cancelBooking, the
\* dispute webhook and cancelEvent make no other transition.
C14_StatusTransitions ==
    [][\A i \in 1..Len(bookings) :
         bookings'[i].status # bookings[i].status
         => \/ <<bookings[i].status, bookings'[i].status>> \in
                 {<<"pending", "confirmed">>, <<"confirmed", "cancelled">>,
                  <<"confirmed", "completed">>, <<"confirmed", "disputed">>}
            \/ /\ last'.op = "processRefund"
               /\ bookings[i].status \in {"confirmed", "completed"}
               /\ bookings'[i].status = "cancelled"
               /\ bookings'[i].paymentStatus = "refunded"]_vars

\* C15: cancelBooking on a booking whose status is already cancelled is rejected
\* with ALREADY_CANCELLED and leaves the booking, the event's currentParticipants
\* and participants, and the user's joinedEvents unchanged.
C15_CancelTwiceRejected ==
    [][\A a \in Actors, bid \in BookingIds :
         (/\ CancelBooking(a, bid)
          /\ MayTouch(a, bookings[bid])
          /\ bookings[bid].status = "cancelled")
         => /\ ~last'.ok
            /\ last'.err = "ALREADY_CANCELLED"
            /\ UNCHANGED store]_vars

\* C16: confirmBooking succeeds only when the actor is the booking's host or an
\* admin, the booking is pending and its paymentStatus is paid; otherwise it
\* fails with ACCESS_DENIED, INVALID_STATE or PAYMENT_REQUIRED respectively and
\* leaves the booking, the event and the user unchanged.
C16_ConfirmBookingGuards ==
    [][\A a \in Actors, bid \in BookingIds :
         ConfirmBooking(a, bid)
         => LET b == bookings[bid]
                auth == b.hostId = a \/ IsAdmin(a)
                pending == b.status = "pending"
                paid == b.paymentStatus = "paid"
            IN /\ last'.ok => (auth /\ pending /\ paid)
               /\ ~auth => (last'.err = "ACCESS_DENIED" /\ UNCHANGED store)
               /\ (auth /\ ~pending) => (last'.err = "INVALID_STATE" /\ UNCHANGED store)
               /\ (auth /\ pending /\ ~paid)
                    => (last'.err = "PAYMENT_REQUIRED" /\ UNCHANGED store)]_vars

\* C16 witness: confirmBooking has just refused, with PAYMENT_REQUIRED, a pending
\* booking that is not yet paid.
C16_Witness ==
    /\ last.op = "confirmBooking"
    /\ last.err = "PAYMENT_REQUIRED"
    /\ \E i \in BookingIds :
         bookings[i].status = "pending" /\ bookings[i].paymentStatus = "pending"

\* C17: when the host cancels a confirmed, paid booking its status becomes
\* cancelled and the event's currentParticipants is decremented, while no refund
\* is issued: no gateway refund is made and the booking's paymentStatus,
\* refundId and refundAmount are unchanged.
C17_HostCancelNoRefund ==
    [][\A bid \in BookingIds :
         (/\ CancelBooking(bookings[bid].hostId, bid)
          /\ bookings[bid].status = "confirmed"
          /\ bookings[bid].paymentStatus = "paid")
         => /\ bookings'[bid].status = "cancelled"
            /\ events'[bookings[bid].eventId].currentParticipants
                 < events[bookings[bid].eventId].currentParticipants
            /\ intents' = intents
            /\ bookings'[bid].paymentStatus = bookings[bid].paymentStatus
            /\ bookings'[bid].refundId = bookings[bid].refundId
            /\ bookings'[bid].refundAmount = bookings[bid].refundAmount]_vars

\* C18: a successful processRefund(bookingId, amount?) sets the booking's status
\* to cancelled and paymentStatus to refunded, stores the gateway refund id in
\* refundId, sets refundAmount to the amount given or, when none is given, to the
\* full captured amount, and lowers the event's currentParticipants by the
\* booking's quantity.
C18_RefundResult ==
    [][\A bid \in BookingIds, arg \in RefundArgs, up \in BOOLEAN :
         (ProcessRefund(bid, arg, up) /\ last'.ok)
         => LET b == bookings[bid]
                pi == b.paymentIntentId
            IN /\ bookings'[bid].status = "cancelled"
               /\ bookings'[bid].paymentStatus = "refunded"
               /\ bookings'[bid].refundId = RefundIdOf(pi)
               /\ bookings'[bid].refundId # NoId
               /\ bookings'[bid].refundAmount =
                    (IF arg # 0 THEN arg ELSE FromCents(intents[pi].amount))
               /\ events'[b.eventId].currentParticipants =
                    events[b.eventId].currentParticipants - b.quantity]_vars

\* C18 witness: a partial refund of 5 on a booking of a larger amount has been
\* processed.
C18_Witness ==
    /\ last.op = "processRefund"
    /\ last.ok
    /\ \E i \in BookingIds :
         /\ bookings[i].refundAmount = 5
         /\ bookings[i].amount > 5
         /\ bookings[i].refundId # NoId

\* C19: processRefund fails and changes no booking, event or gateway record when
\* the booking does not exist (BOOKING_NOT_FOUND), when its paymentStatus is not
\* paid or its status is cancelled (the code's 'No payment to refund' and
\* 'Booking already cancelled', the NOTHING_TO_REFUND class), or when the gateway
\* refund call fails (GATEWAY_REFUND_FAILED); the gateway is asked once.
C19_RefundErrors ==
    [][\A bid \in BookingIdArgs, arg \in RefundArgs, up \in BOOLEAN :
         ProcessRefund(bid, arg, up)
         => /\ bid \notin BookingIds
                 => (last'.err = "BOOKING_NOT_FOUND" /\ UNCHANGED <<store, intents>>)
            /\ (bid \in BookingIds
                  /\ (bookings[bid].paymentStatus # "paid" \/ bookings[bid].status = "cancelled"))
                 => /\ last'.err \in {"NOTHING_TO_REFUND", "ALREADY_CANCELLED"}
                    /\ UNCHANGED <<store, intents>>
            /\ (bid \in BookingIds /\ bookings[bid].paymentStatus = "paid"
                  /\ bookings[bid].status # "cancelled" /\ ~up)
                 => (last'.err = "GATEWAY_REFUND_FAILED" /\ UNCHANGED <<store, intents>>)
            /\ ~last'.ok => UNCHANGED <<store, intents>>]_vars

\* C19 witness: the gateway has refused a refund of a paid, non-cancelled booking,
\* which is still as it was.
C19_Witness ==
    /\ last.op = "processRefund"
    /\ last.err = "GATEWAY_REFUND_FAILED"
    /\ \E i \in BookingIds :
         /\ bookings[i].paymentStatus = "paid"
         /\ bookings[i].status # "cancelled"
         /\ bookings[i].paymentIntentId \in 1..Len(intents)
         /\ intents[bookings[i].paymentIntentId].refunded = 0

C21_AuditFieldsStable ==
    [][\A i \in 1..Len(bookings) :
         /\ bookings'[i].paymentIntentId = bookings[i].paymentIntentId
         /\ bookings'[i].amount = bookings[i].amount
         /\ bookings[i].refundId # NoId
              => /\ bookings'[i].refundId = bookings[i].refundId
                 /\ bookings'[i].refundAmount = bookings[i].refundAmount]_vars

\* C21 witness: a booking that carries a refund has since been written again: the
\* host gave it another status with updateBooking.
C21_Witness ==
    /\ last.op = "updateBooking"
    /\ last.ok
    /\ \E i \in BookingIds :
         /\ bookings[i].refundId # NoId
         /\ bookings[i].refundAmount > 0
         /\ bookings[i].status # "cancelled"

\* C22: no operation removes a booking: the stored bookings only grow, and
\* cancellation, refund, dispute and event cancellation leave every stored
\* booking in place, the same booking of the same user and event.
C22_BookingsNeverRemoved ==
    [][/\ Len(bookings') >= Len(bookings)
       /\ \A i \in 1..Len(bookings) :
            /\ bookings'[i].userId = bookings[i].userId
            /\ bookings'[i].eventId = bookings[i].eventId
            /\ bookings'[i].hostId = bookings[i].hostId]_vars

\* C22 witness: cancelEvent has succeeded and the event's booking is still
\* stored, with status cancelled.
C22_Witness ==
    /\ last.op = "cancelEvent"
    /\ last.ok
    /\ \E i \in BookingIds : bookings[i].status = "cancelled"

\* C23: the payment-succeeded webhook completes normally, creating no booking and
\* changing no counter, when a booking already exists for the intent or when the
\* booking cannot be stored.
C23_WebhookNeverRaises ==
    [][\A pi \in 1..Len(intents) :
         (/\ HandlePaymentSucceeded(pi)
          /\ \/ ExistsForIntent(bookings, pi)
             \/ ~InsertOK(IntentBookingDoc(pi), bookings))
         => /\ last'.ok
            /\ UNCHANGED <<bookings, events>>]_vars

\* C24: getHostEarnings(hostId) returns totalRevenue = the sum of amount over the
\* bookings with paymentStatus paid and status other than cancelled on the
\* host's events, totalRefunds = the sum of their refundAmount, netEarnings =
\* totalRevenue - totalRefunds, totalBookings = their number, averageBookingValue
\* = totalRevenue / totalBookings (0 when there are none), and changes no stored
\* state.
C24_HostEarnings ==
    [][\A h \in {HostId, AdminId} :
         GetHostEarnings(h)
         => LET mine(i) == /\ events[bookings[i].eventId].hostId = h
                           /\ bookings[i].paymentStatus = "paid"
                           /\ bookings[i].status # "cancelled"
                amountOf(i) == IF mine(i) THEN bookings[i].amount ELSE 0
                refundOf(i) == IF mine(i) THEN bookings[i].refundAmount ELSE 0
                n == Cardinality({i \in BookingIds : mine(i)})
                revenue == IF Len(bookings) = 0 THEN 0
                           ELSE IF Len(bookings) = 1 THEN amountOf(1)
                           ELSE amountOf(1) + amountOf(2)
                refunds == IF Len(bookings) = 0 THEN 0
                           ELSE IF Len(bookings) = 1 THEN refundOf(1)
                           ELSE refundOf(1) + refundOf(2)
                r == last'.value
            IN /\ Len(bookings) <= 2
               /\ r.totalRevenue = revenue
               /\ r.totalRefunds = refunds
               /\ r.netEarnings = revenue - refunds
               /\ r.totalBookings = n
               /\ n > 0 => (r.averageBookingValue.num = revenue /\ r.averageBookingValue.den = n)
               /\ n = 0 => r.averageBookingValue.num = 0
               /\ UNCHANGED <<store, intents>>]_vars

\* C24 witness: the host's report has counted one paid booking and left out
\* another stored booking of the same event.
C24_Witness ==
    /\ last.op = "getHostEarnings"
    /\ last.value.totalBookings = 1
    /\ last.value.totalRevenue > 0
    /\ Len(bookings) = 2

\* C25: after any sequence of createReview, updateReview, deleteReview and the
\* admin deleteReview, the host's totalReviews equals the number of stored
\* reviews for the host and averageRating equals the mean of their ratings
\* rounded to one decimal place (0 when there are none).
C25_HostRatingMatchesReviews ==
    LET mine == {r \in reviews : r.hostId = HostId}
        n == Cardinality(mine)
    IN /\ rating.totalReviews = n
       /\ n = 0 => rating.averageRating = 0
       /\ n > 0 => /\ 2 * n * rating.averageRating <= 20 * TotalRating(mine) + n
                   /\ 2 * n * (rating.averageRating + 1) > 20 * TotalRating(mine) + n

\* C26: event.currentParticipants is never negative in any reachable state,
\* under any sequence of joinEvent, leaveEvent, createBooking, confirmBooking,
\* cancelBooking, confirmPayment and processRefund on the same event.
C26_CounterNeverNegative ==
    \A e \in Events : events[e].currentParticipants >= 0

\* C27: after a successful EventService.cancelEvent the event's stored status is
\* cancelled and no booking of that event has a status other than cancelled,
\* for every prior event state including an event that was full.
C27_CancelEventCancels ==
    [][\A a \in Actors, e \in Events :
         (CancelEvent(a, e) /\ last'.ok)
         => /\ events'[e].status = "cancelled"
            /\ \A i \in 1..Len(bookings') :
                 bookings'[i].eventId = e => bookings'[i].status = "cancelled"]_vars

\* C28: no user id appears more than once in event.participants, and joinEvent,
\* createBooking and confirmBooking raise currentParticipants for a user only
\* when they add that user to the participant list, which did not hold the user.
C28_ParticipantListedOnce ==
    /\ [](\A e \in Events, u \in Users : events[e].participants[u] <= 1)
    /\ [][\A e \in Events, u \in Users :
            (/\ \/ JoinEvent(u, e)
                \/ \E q \in Quantities : CreateBooking(u, e, q)
                \/ \E a \in Actors, bid \in BookingIds :
                     /\ ConfirmBooking(a, bid)
                     /\ bookings[bid].userId = u
                     /\ bookings[bid].eventId = e
             /\ events'[e].currentParticipants > events[e].currentParticipants)
            => /\ ~Includes(events[e].participants, u)
               /\ events'[e].participants[u] = 1
               /\ events'[e].currentParticipants = events[e].currentParticipants + 1]_vars

\* a user who joined, left and joined again is listed once and counted once
C28_Witness ==
    /\ last.op = "joinEvent"
    /\ ~last.ok
    /\ last.err = "ALREADY_PARTICIPANT"
    /\ \E e \in Events, u \in Users :
         events[e].participants[u] = 1 /\ events[e].currentParticipants >= 1

\* C29: in every reachable state a user is in event.participants of an event if
\* and only if the event is in the user's joinedEvents, under any sequence of
\* joinEvent, leaveEvent, createBooking, confirmBooking and cancelBooking,
\* including a cancelBooking by the host or an admin on another user's booking.
C29_ParticipantsMirrorJoined ==
    \A e \in Events, u \in Users :
        Includes(events[e].participants, u) <=> Includes(joined[u], e)

\* the host or an admin has cancelled a user's confirmed booking: the user is in
\* neither list, while another user is still in both
C29_Witness ==
    /\ last.op = "cancelBooking"
    /\ last.ok
    /\ \E i \in BookingIds, u \in Users :
         /\ bookings[i].status = "cancelled"
         /\ bookings[i].userId # u
         /\ ~Includes(events[bookings[i].eventId].participants, bookings[i].userId)
         /\ ~Includes(joined[bookings[i].userId], bookings[i].eventId)
         /\ Includes(events[bookings[i].eventId].participants, u)
         /\ Includes(joined[u], bookings[i].eventId)

\* C30: in every reachable state no booking has both paymentStatus = paid and a
\* non-zero refundAmount, so the totalRefunds returned by getHostEarnings is
\* always 0 and netEarnings always equals totalRevenue.
C30_NoRefundOnPaidBooking ==
    /\ \A i \in BookingIds :
         ~(bookings[i].paymentStatus = "paid" /\ bookings[i].refundAmount # 0)
    /\ last.op = "getHostEarnings"
         => /\ last.value.totalRefunds = 0
            /\ last.value.netEarnings = last.value.totalRevenue
    /\ \A h \in {HostId, AdminId} :
         /\ HostEarnings(h).totalRefunds = 0
         /\ HostEarnings(h).netEarnings = HostEarnings(h).totalRevenue

\* the host reads the earnings after a booking of theirs was refunded
C30_Witness ==
    /\ last.op = "getHostEarnings"
    /\ last.value.totalRefunds = 0
    /\ \E i \in BookingIds :
         /\ bookings[i].hostId = HostId
         /\ bookings[i].paymentStatus = "refunded"
         /\ bookings[i].refundAmount > 0

\* C2: when the webhook and a client confirmPayment for one freshly paid intent
\* have both run, in any interleaving, exactly one booking carries that
\* paymentIntentId and currentParticipants has grown by the quantity once.
C2_RaceYieldsOneBooking ==
    (/\ reqs["client"].pc = "done"
     /\ reqs["webhook"].pc = "done"
     /\ reqs["client"].pi = reqs["webhook"].pi
     /\ reqs["client"].paid
     /\ intents[reqs["client"].pi].created
     /\ \A u \in JoinSlots : reqs[u].pc = "idle")
    => LET pi == reqs["client"].pi
           doc == IntentBookingDoc(pi)
       IN /\ Cardinality({i \in BookingIds : bookings[i].paymentIntentId = pi}) = 1
          /\ events[doc.eventId].currentParticipants = reqs["client"].cp0 + doc.quantity

\* C3: when two users join or book the last slot of an event concurrently, no
\* counter update is lost (the counter matches the accepted participants) and
\* no more participants are accepted than the event has room for.
C3_LastSlotNotOversold ==
    \A e \in Events :
        (\A u \in JoinSlots : reqs[u].pc \in {"idle", "done"})
        => /\ events[e].currentParticipants <= events[e].maxParticipants
           /\ Size(events[e].participants) <= events[e].maxParticipants
           /\ (\A s \in PaySlots : reqs[s].pc = "idle")
                => events[e].currentParticipants = Size(events[e].participants)

====
